---- MODULE Spec2Model ----
(***************************************************************************)
(* Model of src/app.py: text acquisition (extract_text_from_pdf,           *)
(* extract_text_from_image), the regex field extractor                     *)
(* (extract_information) and the batch loop over the uploaded files.       *)
(*                                                                         *)
(* A text is a sequence of one-character strings.  Regular expressions are *)
(* syntax trees interpreted by a backtracking matcher that yields the end  *)
(* positions of a sub-pattern in the priority order of Python's re module. *)
(*                                                                         *)
(* extract_information is read as lines 121-197 continued by lines         *)
(* 364-377 (the value patterns and `return info`): in the file a second    *)
(* copy of the interface code (lines 199-361) sits between the two parts.  *)
(***************************************************************************)
EXTENDS Integers, Sequences, FiniteSets, TLC

\* ------------------------------------------------------------ characters

Digit == {"0", "1", "2", "3", "4", "5", "6", "7", "8", "9"}
Space == {" ", "\n", "\t"}
LowerSeq == <<"a", "b", "c", "d", "e", "f", "g", "h", "i", "j", "k", "l", "m", "n", "o", "p", "q", "r", "s", "t", "u", "v", "w", "x", "y", "z", "à", "á", "â", "ã", "ç", "é", "ê", "í", "ó", "ô", "õ", "ú">>
UpperSeq == <<"A", "B", "C", "D", "E", "F", "G", "H", "I", "J", "K", "L", "M", "N", "O", "P", "Q", "R", "S", "T", "U", "V", "W", "X", "Y", "Z", "À", "Á", "Â", "Ã", "Ç", "É", "Ê", "Í", "Ó", "Ô", "Õ", "Ú">>
Range(s) == {s[k] : k \in 1..Len(s)}
Lower == Range(LowerSeq)
Upper == Range(UpperSeq)
AsciiLetter == {LowerSeq[k] : k \in 1..26} \cup {UpperSeq[k] : k \in 1..26}
\* "en-dash" and "em-dash" stand for the characters U+2013 and U+2014
Punct == {":", "-", "en-dash", "em-dash", ".", ",", "/", "$", "°", "º", "_"}
Alphabet == Digit \cup Space \cup Lower \cup Upper \cup Punct
\* \w of a str pattern: letters (the ordinal sign is one), digits and the underscore
WordChar == Lower \cup Upper \cup Digit \cup {"_", "º"}

\* The other case of a letter (re.IGNORECASE compares case-folded characters).
SwapCase(c) ==
    IF \E k \in 1..Len(LowerSeq) : LowerSeq[k] = c
    THEN UpperSeq[CHOOSE k \in 1..Len(LowerSeq) : LowerSeq[k] = c]
    ELSE IF \E k \in 1..Len(UpperSeq) : UpperSeq[k] = c
         THEN LowerSeq[CHOOSE k \in 1..Len(UpperSeq) : UpperSeq[k] = c]
         ELSE c
CI(S) == S \cup {SwapCase(c) : c \in S}

\* ------------------------------------------------------- regex syntax trees

Inf == -1
Cls(S) == [t |-> "cls", s |-> S]
Cat(items) == [t |-> "cat", items |-> items]
Alt(items) == [t |-> "alt", items |-> items]
Rep(n, lo, hi, greedy) == [t |-> "rep", n |-> n, lo |-> lo, hi |-> hi, greedy |-> greedy]
Look(n) == [t |-> "look", n |-> n]
Eos == [t |-> "eos"]
Wb == [t |-> "wb"]
Empty == Cat(<<>>)
\* every pattern of app.py is compiled with re.IGNORECASE
Ch(c) == Cls(CI({c}))
Lit(w) == [t |-> "lit", w |-> w]
Star(n) == Rep(n, 0, Inf, TRUE)
Plus(n) == Rep(n, 1, Inf, TRUE)
Opt(n) == Rep(n, 0, 1, TRUE)
LazyStar(n) == Rep(n, 0, Inf, FALSE)
D == Cls(Digit)
S == Cls(Space)
Dash == Cls({"-", "en-dash", "em-dash"})
ColonSp == Cls({":"} \cup Space)
DotNoNl == Cls(Alphabet \ {"\n"})
DotAll == Cls(Alphabet)
Pattern(pre, cap, post) == [pre |-> pre, cap |-> cap, post |-> post]

\* ------------------------------------------------------------ the matcher

Only(X) == CHOOSE x \in X : TRUE
\* F of the value of v: v is evaluated once, where an operator argument or a LET
\* definition is evaluated again at every use
Bind(v, F(_)) == Only({F(x) : x \in {v}})

\* a then the positions of b not in a: both in priority order, without repeats
Merge(a, b) ==
    Bind(a, LAMBDA x : x \o SelectSeq(b, LAMBDA e : \A k \in 1..Len(x) : x[k] # e))

IsWord(t, k) == k >= 1 /\ k <= Len(t) /\ t[k] \in WordChar

\* a literal word, compared character by character without regard to case
LitAt(w, t, i) == i + Len(w) <= Len(t) /\ \A k \in 1..Len(w) : t[i + k] \in CI({w[k]})

\* x{lo,hi} of a character class x: the run of class characters at i is r long, and
\* the repetition ends after lo..min(r, hi) of them, longest first when greedy
EndsRepCls(n, t, i) ==
    LET stop == {k \in 0..(Len(t) - i) : k = Len(t) - i \/ t[i + k + 1] \notin n.n.s}
        r == CHOOSE k \in stop : \A j \in stop : k <= j
        top == IF n.hi = Inf \/ r < n.hi THEN r ELSE n.hi
    IN IF top < n.lo THEN <<>>
       ELSE [j \in 1..(top - n.lo + 1) |-> IF n.greedy THEN i + top - (j - 1)
                                                       ELSE i + n.lo + (j - 1)]

RECURSIVE Ends(_, _, _)
RECURSIVE EndsFromRange(_, _, _, _, _)
RECURSIVE EndsCat(_, _, _, _)
RECURSIVE EndsAlt(_, _, _, _)
RECURSIVE EndsRep(_, _, _, _)
RECURSIVE EndsRepFrom(_, _, _, _)

\* End positions (number of characters consumed) of the matches of n that start
\* at position i of t, most preferred first.
Ends(n, t, i) ==
    CASE n.t = "cls" -> IF i < Len(t) /\ t[i + 1] \in n.s THEN <<i + 1>> ELSE <<>>
      [] n.t = "lit" -> IF LitAt(n.w, t, i) THEN <<i + Len(n.w)>> ELSE <<>>
      [] n.t = "cat" -> EndsCat(n.items, 1, t, <<i>>)
      [] n.t = "alt" -> EndsAlt(n.items, 1, t, i)
      [] n.t = "rep" -> IF n.n.t = "cls" THEN EndsRepCls(n, t, i) ELSE EndsRep(n, t, i, 0)
      [] n.t = "look" -> IF Ends(n.n, t, i) # <<>> THEN <<i>> ELSE <<>>
      \* $ without re.MULTILINE: the end, or just before a final newline
      [] n.t = "eos" -> IF i = Len(t) \/ (i = Len(t) - 1 /\ t[Len(t)] = "\n")
                        THEN <<i>> ELSE <<>>
      [] n.t = "wb" -> IF IsWord(t, i) # IsWord(t, i + 1) THEN <<i>> ELSE <<>>

\* The ends of n from the starts P[lo..hi] in turn (P in priority order): the ends
\* from an earlier start come first.  The range is halved to keep the evaluation
\* shallow.
EndsFromRange(n, t, P, lo, hi) ==
    IF lo > hi THEN <<>>
    ELSE IF lo = hi THEN Ends(n, t, P[lo])
    ELSE LET mid == (lo + hi) \div 2
         IN Merge(EndsFromRange(n, t, P, lo, mid), EndsFromRange(n, t, P, mid + 1, hi))

EndsFrom(n, t, P) == EndsFromRange(n, t, P, 1, Len(P))

EndsCat(items, k, t, P) ==
    IF k > Len(items) \/ P = <<>> THEN P
    ELSE Bind(EndsFrom(items[k], t, P), LAMBDA Q : EndsCat(items, k + 1, t, Q))

EndsAlt(items, k, t, i) ==
    IF k > Len(items) THEN <<>>
    ELSE Merge(Ends(items[k], t, i), EndsAlt(items, k + 1, t, i))

\* x{lo,hi} of any other x, after c repetitions
EndsRep(n, t, i, c) ==
    LET here == IF c >= n.lo THEN <<i>> ELSE <<>>
        more == IF n.hi = Inf \/ c < n.hi
                THEN Bind(SelectSeq(Ends(n.n, t, i), LAMBDA e : e > i),
                          LAMBDA P : EndsRepFrom(n, t, P, c + 1))
                ELSE <<>>
    IN IF n.greedy THEN Merge(more, here) ELSE Merge(here, more)

EndsRepFrom(n, t, P, c) ==
    IF P = <<>> THEN <<>> ELSE Merge(EndsRep(n, t, Head(P), c), EndsRepFrom(n, t, Tail(P), c))

NoMatch == <<>>

\* The span <<p, c>> of group 1 in the preferred match of pat starting at s: the
\* first end p of the part before the group, then the first end c of the group,
\* after which the rest of the pattern matches.
MatchAt(pat, t, s) ==
    Bind(Ends(pat.pre, t, s), LAMBDA P :
        LET Spans(p) == SelectSeq(Ends(pat.cap, t, p), LAMBDA c : Ends(pat.post, t, c) # <<>>)
        IN Bind({k \in 1..Len(P) : Spans(P[k]) # <<>>}, LAMBDA ok :
               IF ok = {} THEN NoMatch
               ELSE LET k == CHOOSE j \in ok : \A m \in ok : j <= m
                    IN <<P[k], Head(Spans(P[k]))>>))

\* re.search(pattern, t, re.IGNORECASE): <<>> for None, else <<group(1)>> of the
\* preferred match at the leftmost position that has one
Search(pat, t) ==
    Bind({s \in 0..Len(t) : MatchAt(pat, t, s) # NoMatch}, LAMBDA starts :
        IF starts = {} THEN NoMatch
        ELSE Bind(MatchAt(pat, t, CHOOSE x \in starts : \A y \in starts : x <= y),
                  LAMBDA m : <<SubSeq(t, m[1] + 1, m[2])>>))

\* ------------------------------------------------------ string operations

\* str.replace(old, new): the occurrences of old, left to right, not overlapping
RECURSIVE Replace(_, _, _)
Replace(t, old, new) ==
    Bind({k \in 1..(Len(t) - Len(old) + 1) : SubSeq(t, k, k + Len(old) - 1) = old},
         LAMBDA occ :
             IF occ = {} THEN t
             ELSE Bind(CHOOSE x \in occ : \A y \in occ : x <= y, LAMBDA k :
                      Bind(SubSeq(t, k + Len(old), Len(t)), LAMBDA rest :
                          SubSeq(t, 1, k - 1) \o new \o Replace(rest, old, new))))

RECURSIVE LStrip(_, _)
LStrip(t, chars) == IF t # <<>> /\ Head(t) \in chars THEN LStrip(Tail(t), chars) ELSE t
RECURSIVE RStrip(_, _)
RStrip(t, chars) ==
    IF t # <<>> /\ t[Len(t)] \in chars THEN RStrip(SubSeq(t, 1, Len(t) - 1), chars) ELSE t
\* str.strip()
Strip(t) == RStrip(LStrip(t, Space), Space)

\* re.sub(r'[^\d]', '', s)
DigitsOnly(t) == SelectSeq(t, LAMBDA c : c \in Digit)

\* re.sub(r'\s{2,}', ' ', s): every run of two or more whitespace characters
RECURSIVE CollapseRuns(_)
CollapseRuns(t) ==
    IF t = <<>> THEN <<>>
    ELSE IF Head(t) \in Space /\ Len(t) >= 2 /\ t[2] \in Space
         THEN Bind(LStrip(t, Space), LAMBDA rest : <<" ">> \o CollapseRuns(rest))
         ELSE Bind(Tail(t), LAMBDA rest : <<Head(t)>> \o CollapseRuns(rest))

\* len(s.split()): the number of maximal runs of non-whitespace characters
TokenCount(t) ==
    Cardinality({k \in 1..Len(t) : t[k] \notin Space /\ (k = 1 \/ t[k - 1] \in Space)})

\* ------------------------------------------------------------- the patterns

W_Registro == <<"R", "e", "g", "i", "s", "t", "r", "o">>
W_ANS == <<"A", "N", "S">>
W_Operadora == <<"O", "p", "e", "r", "a", "d", "o", "r", "a">>
W_mero == <<"m", "e", "r", "o">>
W_GUIA == <<"G", "U", "I", "A">>
W_guia == <<"g", "u", "i", "a">>
W_da == <<"d", "a">>
W_Data == <<"D", "a", "t", "a">>
W_de == <<"d", "e">>
W_Autoriza == <<"A", "u", "t", "o", "r", "i", "z", "a">>
W_data == <<"d", "a", "t", "a">>
W_autoriza == <<"a", "u", "t", "o", "r", "i", "z", "a">>
W_em == <<"e", "m">>
W_realizado == <<"r", "e", "a", "l", "i", "z", "a", "d", "o">>
W_Nome == <<"N", "o", "m", "e">>
W_CPF == <<"C", "P", "F">>
W_RG == <<"R", "G">>
W_Carteira == <<"C", "a", "r", "t", "e", "i", "r", "a">>
W_Cart == <<"C", "a", "r", "t">>
W_Benefici == <<"B", "e", "n", "e", "f", "i", "c", "i">>
W_rio == <<"r", "i", "o">>
W_Paciente == <<"P", "a", "c", "i", "e", "n", "t", "e">>
W_valor == <<"v", "a", "l", "o", "r">>
W_total == <<"t", "o", "t", "a", "l">>
W_consulta == <<"c", "o", "n", "s", "u", "l", "t", "a">>
W_procedimento == <<"p", "r", "o", "c", "e", "d", "i", "m", "e", "n", "t", "o">>
W_pagar == <<"p", "a", "g", "a", "r">>
W_cobrar == <<"c", "o", "b", "r", "a", "r">>

\* Registro\s+ANS[:\s]*
RegistroANS == Cat(<<Lit(W_Registro), Plus(S), Lit(W_ANS), Star(ColonSp)>>)
\* [Nn]?[°º]?
NumeroSign == Cat(<<Opt(Ch("N")), Opt(Cls({"°", "º"}))>>)
AnsMinDigits == 5

ans_patterns == <<
    Pattern(Cat(<<Ch("1"), Star(S), Dash, Star(S), RegistroANS>>), Plus(D), Empty),
    Pattern(RegistroANS, Plus(D), Empty),
    Pattern(Cat(<<Lit(W_ANS), Star(ColonSp), NumeroSign, Star(S)>>),
            Rep(D, AnsMinDigits, Inf, TRUE), Empty),
    Pattern(Cat(<<Alt(<<Lit(W_Operadora), Lit(W_Registro)>>), LazyStar(DotNoNl),
                  Lit(W_ANS), Star(ColonSp)>>),
            Rep(D, AnsMinDigits, Inf, TRUE), Empty) >>

\* N[úu]mero\s+GUIA[:\s]*
NumeroGUIA == Cat(<<Ch("N"), Cls(CI({"ú", "u"})), Lit(W_mero), Plus(S), Lit(W_GUIA),
                    Star(ColonSp)>>)
NumChar == Cls(Digit \cup Space \cup {".", "-"})
\* (\d+[\d\s.\-]*\d+)
GuiaCapture == Cat(<<Plus(D), Star(NumChar), Plus(D)>>)
\* (\d[\d\s.\-]{5,})
GuiaLooseCapture == Cat(<<D, Rep(NumChar, 5, Inf, TRUE)>>)
\* n[úuº°]?\.?
NAbbrev == Cat(<<Ch("n"), Opt(Cls(CI({"ú", "u", "º", "°"}))), Opt(Ch("."))>>)

guia_patterns == <<
    Pattern(Cat(<<Ch("2"), Star(S), Dash, Star(S), NumeroGUIA>>), GuiaCapture, Empty),
    Pattern(NumeroGUIA, GuiaCapture, Empty),
    Pattern(Cat(<<Lit(W_GUIA), Star(ColonSp), NumeroSign, Star(S)>>), GuiaCapture, Empty),
    Pattern(Cat(<<Alt(<<Cat(<<NAbbrev, Star(S), Opt(Cat(<<Lit(W_da), Plus(S)>>)), Lit(W_guia)>>),
                        Cat(<<Lit(W_guia), Plus(S), NAbbrev>>)>>),
                  Star(ColonSp)>>),
            GuiaLooseCapture, Empty),
    Pattern(Cat(<<Lit(W_guia), Star(ColonSp), Opt(Cls(CI({"n", "°", "º"}))), Star(ColonSp)>>),
            GuiaLooseCapture, Empty) >>

DateSep == Cls({"/", ".", "-"})
\* (\d{2}[/.\-]\d{2}[/.\-]\d{4})
DateCapture == Cat(<<D, D, DateSep, D, D, DateSep, D, D, D, D>>)
\* Autoriza[çc][ãa]o
Autorizacao == Cat(<<Lit(W_Autoriza), Cls(CI({"ç", "c"})), Cls(CI({"ã", "a"})), Ch("o")>>)
\* Data\s+de\s+Autoriza[çc][ãa]o[:\s]*
DataDeAutorizacao == Cat(<<Lit(W_Data), Plus(S), Lit(W_de), Plus(S), Autorizacao, Star(ColonSp)>>)

\* compiled with re.IGNORECASE | re.DOTALL
data_patterns == <<
    Pattern(Cat(<<Ch("4"), Star(S), Dash, Star(S), DataDeAutorizacao>>), DateCapture, Empty),
    Pattern(DataDeAutorizacao, DateCapture, Empty),
    Pattern(Cat(<<Autorizacao, Star(ColonSp)>>), DateCapture, Empty),
    Pattern(Cat(<<Lit(W_data), LazyStar(DotAll), Autorizacao, LazyStar(DotAll), Opt(ColonSp)>>),
            DateCapture, Empty),
    Pattern(Cat(<<Alt(<<Lit(W_em), Cat(<<Lit(W_realizado), LazyStar(DotAll), Lit(W_em)>>)>>),
                  Plus(ColonSp)>>),
            DateCapture, Empty),
    Pattern(Wb, DateCapture, Wb) >>

Accented == {"à", "á", "â", "ã", "ç", "é", "ê", "í", "ó", "ô", "õ", "ú",
             "À", "Á", "Â", "Ã", "Ç", "É", "Ê", "Í", "Ó", "Ô", "Õ", "Ú"}
\* [A-ZÀÁÂÃÇÉÊÍÓÔÕÚ]
NameStart == Cls(CI({UpperSeq[k] : k \in 1..Len(UpperSeq)}))
\* [A-Za-zàáâãçéêíóôõúÀÁÂÃÇÉÊÍÓÔÕÚ\s]
NameChar == Cls(CI(AsciiLetter \cup Accented) \cup Space)
\* 10\s*[-–—]\s*Nome[:\s]+
DezNome == Cat(<<Ch("1"), Ch("0"), Star(S), Dash, Star(S), Lit(W_Nome), Plus(ColonSp)>>)
SpThen(n) == Cat(<<Plus(S), n>>)

nome_patterns == <<
    Pattern(DezNome, Cat(<<NameStart, Rep(NameChar, 3, 100, FALSE)>>),
            Alt(<<SpThen(Cat(<<D, D, DateSep, D, D>>)), SpThen(Lit(W_CPF)), SpThen(Lit(W_RG)),
                  SpThen(Lit(W_Carteira)), SpThen(Cat(<<Lit(W_Cart), Ch(".")>>)),
                  SpThen(Ch("\n")), Eos>>)),
    Pattern(DezNome, Cat(<<NameStart, Rep(Cls(Alphabet \ ({"\n"} \cup Digit)), 10, 80, FALSE)>>),
            Look(Alt(<<Cat(<<Star(S), D>>), Cat(<<Star(S), Lit(W_CPF)>>),
                       Cat(<<Star(S), Lit(W_RG)>>), Ch("\n"), Eos>>))),
    Pattern(Cat(<<Lit(W_Nome), Plus(ColonSp)>>),
            Cat(<<NameStart, Rep(NameChar, 10, 80, FALSE)>>),
            Alt(<<SpThen(Lit(W_CPF)), SpThen(Lit(W_RG)), SpThen(Cat(<<D, D, DateSep>>)),
                  SpThen(Lit(W_Carteira)), Ch("\n")>>)),
    Pattern(Cat(<<Alt(<<Cat(<<Lit(W_Benefici), Cls(CI({"á", "a"})), Lit(W_rio)>>),
                        Lit(W_Paciente)>>),
                  Plus(ColonSp)>>),
            Cat(<<NameStart, Rep(NameChar, 10, 80, FALSE)>>),
            Alt(<<SpThen(Lit(W_CPF)), SpThen(Lit(W_RG)), SpThen(Cat(<<D, D, DateSep>>)),
                  Ch("\n")>>)) >>

\* (\d{1,3}(?:\.\d{3})*,\d{2})
\* the capture with one decimal digit, not two
MoneyCaptureOneDecimal ==
    Cat(<<Rep(D, 1, 3, TRUE), Star(Cat(<<Ch("."), D, D, D>>)), Ch(","), D>>)
MoneyCapture == Cat(<<Rep(D, 1, 3, TRUE), Star(Cat(<<Ch("."), D, D, D>>)), Ch(","), D, D>>)
\* [:\s]*R?\$?\s*
CurrencySign == Cat(<<Star(ColonSp), Opt(Ch("R")), Opt(Ch("$")), Star(S)>>)

valor_patterns == <<
    Pattern(Cat(<<Alt(<<Lit(W_valor), Lit(W_total), Lit(W_consulta), Lit(W_procedimento)>>),
                  CurrencySign>>),
            MoneyCapture, Empty),
    Pattern(Cat(<<Ch("R"), Ch("$"), Star(S)>>), MoneyCapture, Empty),
    Pattern(Cat(<<Alt(<<Lit(W_pagar), Lit(W_cobrar)>>), CurrencySign>>), MoneyCapture, Empty),
    Pattern(Cat(<<Wb, Ch("R"), Opt(Ch("$")), Star(S)>>), Cat(<<Plus(D), Ch(","), D, D>>), Wb) >>

\* ------------------------------------------------------ extract_information

K_ANS == "1 - Registro ANS"
K_GUIA == "2 - Número GUIA"
K_DATA == "4 - Data de Autorização"
K_NOME == "10 - Nome"
K_VALOR == "Valor da Consulta"
FieldKeys == {K_ANS, K_GUIA, K_DATA, K_NOME, K_VALOR}

\* A Python value that is None or a str
None == [isNone |-> TRUE, s |-> <<>>]
Str(s) == [isNone |-> FALSE, s |-> s]
\* `if text:` is false of None and of the empty string
Truthy(v) == ~v.isNone /\ v.s # <<>>

\* d[k] = v on a dict: the key is added when it is not there
DictSet(d, k, v) ==
    Bind(d, LAMBDA dict : [x \in DOMAIN dict \cup {k} |-> IF x = k THEN v ELSE dict[x]])

\* text.replace('\n', ' ').replace('  ', ' ')
Normalize(text) == Replace(Replace(text, <<"\n">>, <<" ">>), <<" ", " ">>, <<" ">>)

RECURSIVE ExtractAns(_, _, _)
ExtractAns(info, t, k) ==
    IF k > Len(ans_patterns) THEN info
    ELSE Bind(Search(ans_patterns[k], t), LAMBDA m :
             IF m # NoMatch THEN DictSet(info, K_ANS, m[1])
             ELSE ExtractAns(info, t, k + 1))

GuiaMinDigits == 4

\* the loop leaving at the first match, valid or not
RECURSIVE ExtractGuiaBreakOnMatch(_, _, _)
ExtractGuiaBreakOnMatch(info, t, k) ==
    IF k > Len(guia_patterns) THEN info
    ELSE Bind(Search(guia_patterns[k], t), LAMBDA m :
             IF m = NoMatch THEN ExtractGuiaBreakOnMatch(info, t, k + 1)
             ELSE IF Len(DigitsOnly(m[1])) >= GuiaMinDigits
                  THEN DictSet(info, K_GUIA, DigitsOnly(m[1]))
                  ELSE info)

RECURSIVE ExtractGuia(_, _, _)
ExtractGuia(info, t, k) ==
    IF k > Len(guia_patterns) THEN info
    ELSE Bind(Search(guia_patterns[k], t), LAMBDA m :
             IF m # NoMatch /\ Len(DigitsOnly(m[1])) >= GuiaMinDigits
             THEN DictSet(info, K_GUIA, DigitsOnly(m[1]))
             ELSE ExtractGuia(info, t, k + 1))

RECURSIVE ExtractData(_, _, _)
ExtractData(info, t, k) ==
    IF k > Len(data_patterns) THEN info
    ELSE Bind(Search(data_patterns[k], t), LAMBDA m :
             IF m # NoMatch
             THEN DictSet(info, K_DATA,
                          Replace(Replace(m[1], <<".">>, <<"/">>), <<"-">>, <<"/">>))
             ELSE ExtractData(info, t, k + 1))

\* nome = match.group(1).strip(); re.sub(r'\s{2,}', ' ', nome);
\* re.sub(r'[:\-–—]+$', '', nome).strip()
\* (after strip() the string does not end in a newline, so $ is the end)
CleanNome(g) ==
    Bind(Strip(g), LAMBDA n1 :
        Bind(CollapseRuns(n1), LAMBDA n2 :
            Bind(RStrip(n2, {":", "-", "en-dash", "em-dash"}), LAMBDA n3 : Strip(n3))))
NomeMinTokens == 2

RECURSIVE ExtractNome(_, _, _)
ExtractNome(info, t, k) ==
    IF k > Len(nome_patterns) THEN info
    ELSE Bind(Search(nome_patterns[k], t), LAMBDA m :
             IF m = NoMatch THEN ExtractNome(info, t, k + 1)
             ELSE Bind(CleanNome(m[1]), LAMBDA nome :
                      IF TokenCount(nome) >= NomeMinTokens
                      THEN DictSet(info, K_NOME, nome)
                      ELSE ExtractNome(info, t, k + 1)))

RECURSIVE ExtractValor(_, _, _)
ExtractValor(info, t, k) ==
    IF k > Len(valor_patterns) THEN info
    ELSE Bind(Search(valor_patterns[k], t), LAMBDA m :
             IF m # NoMatch THEN DictSet(info, K_VALOR, m[1])
             ELSE ExtractValor(info, t, k + 1))

\* the dict without the key of the value
EmptyInfoNoValor == [k \in FieldKeys \ {K_VALOR} |-> <<>>]
EmptyInfo == [k \in FieldKeys |-> <<>>]

extract_information(text) ==
    IF ~Truthy(text) THEN EmptyInfo
    ELSE Bind(Normalize(text.s), LAMBDA text_normalized :
         Bind(ExtractAns(EmptyInfo, text_normalized, 1), LAMBDA i1 :
         Bind(ExtractGuia(i1, text_normalized, 1), LAMBDA i2 :
         Bind(ExtractData(i2, text_normalized, 1), LAMBDA i3 :
         Bind(ExtractNome(i3, text_normalized, 1), LAMBDA i4 :
              ExtractValor(i4, text_normalized, 1))))))

\* --------------------------------------------------------- text acquisition

MinTextLen == 50

\* A page of a PDF: its embedded text, and what rasterising it and running OCR on
\* the picture does: "text" (OCR returns ocr), "ocr_raises" (image_to_string
\* raises) or "pixmap_raises" (get_pixmap / Image.open raises).
Page(embedded, outcome, ocr) == [embedded |-> embedded, outcome |-> outcome, ocr |-> ocr]

\* the threshold on the untrimmed text layer
PageStepUntrimmed(page, tesseract_available) ==
    IF tesseract_available /\ Len(page.embedded) < MinTextLen
    THEN IF page.outcome = "pixmap_raises"
         THEN [ocr_called |-> FALSE, raised |-> TRUE, page_text |-> page.embedded]
         ELSE [ocr_called |-> TRUE, raised |-> FALSE,
               page_text |-> IF page.outcome = "ocr_raises" THEN page.embedded ELSE page.ocr]
    ELSE [ocr_called |-> FALSE, raised |-> FALSE, page_text |-> page.embedded]

\* One pass of the page loop: whether image_to_string was called, whether the
\* pass raised out of the loop, and page_text at `text += page_text + "\n"`.
PageStep(page, tesseract_available) ==
    IF tesseract_available /\ Len(Strip(page.embedded)) < MinTextLen
    THEN IF page.outcome = "pixmap_raises"
         THEN [ocr_called |-> FALSE, raised |-> TRUE, page_text |-> page.embedded]
         ELSE [ocr_called |-> TRUE, raised |-> FALSE,
               page_text |-> IF page.outcome = "ocr_raises" THEN page.embedded ELSE page.ocr]
    ELSE [ocr_called |-> FALSE, raised |-> FALSE, page_text |-> page.embedded]

\* the page loop from page k on, text being what the earlier pages gave
RECURSIVE PdfPages(_, _, _, _)
PdfPages(pages, k, text, tesseract_available) ==
    IF k > Len(pages) THEN Str(text)
    ELSE Bind(PageStep(pages[k], tesseract_available), LAMBDA r :
             IF r.raised THEN None
             ELSE Bind(text \o r.page_text \o <<"\n">>, LAMBDA text2 :
                      PdfPages(pages, k + 1, text2, tesseract_available)))

\* fitz.open called whether or not the import succeeded
extract_text_from_pdf_NoImportCheck(file, pymupdf, tesseract) ==
    IF file.content # "pdf" THEN None
    ELSE PdfPages(file.pages, 1, <<>>, tesseract)

\* file: [name, content ("pdf" | "image" | "corrupt"), pages, outcome, ocr];
\* fitz.open raises on bytes that are no PDF.
extract_text_from_pdf(file, pymupdf, tesseract) ==
    IF ~pymupdf THEN None
    ELSE IF file.content # "pdf" THEN None
    ELSE PdfPages(file.pages, 1, <<>>, tesseract)

\* Image.open raises on bytes that are no picture; every exception gives None
extract_text_from_image(file, tesseract) ==
    IF ~tesseract THEN None
    ELSE IF file.content # "image" THEN None
    ELSE IF file.outcome # "text" THEN None
    ELSE Str(file.ocr)

\* str.lower()
ToLower(t) == [k \in 1..Len(t) |-> IF t[k] \in Upper THEN SwapCase(t[k]) ELSE t[k]]
\* file.name.lower().endswith('.pdf')
IsPdfName(name) ==
    Len(name) >= 4 /\ SubSeq(ToLower(name), Len(name) - 3, Len(name)) = <<".", "p", "d", "f">>

Acquire(file, pymupdf, tesseract) ==
    IF IsPdfName(file.name) THEN extract_text_from_pdf(file, pymupdf, tesseract)
    ELSE extract_text_from_image(file, tesseract)

\* ------------------------------------------------------------------ inputs

MaxTokens == 3
MaxFiles == 2
MaxPages == 2

\* The texts given to extract_information: up to MaxTokens fragments of one family.

AnsTokens == {
    <<"R", "e", "g", "i", "s", "t", "r", "o", " ", "A", "N", "S", ":", " ">>,   \* 'Registro ANS: '
    <<"A", "N", "S", " ">>,   \* 'ANS '
    <<"1", " ", "-", " ">>,   \* '1 - '
    <<"1", "2", "3", "4">>,   \* '1234'
    <<"1", "2", "3", "4", "5", "6">>   \* '123456'
}
GuiaTokens == {
    <<"g", "u", "i", "a", " ", "1", "2", ",">>,   \* 'guia 12,'
    <<"g", "u", "i", "a", " ">>,   \* 'guia '
    <<"1", "2", "3", "4", "5", "6">>,   \* '123456'
    <<"N", "ú", "m", "e", "r", "o", " ", "G", "U", "I", "A", ":", " ">>,   \* 'Número GUIA: '
    <<"n", "°", " ", "1", ".", "2">>   \* 'n° 1.2'
}
NomeTokens == {
    <<"1", "0", " ", "-", " ", "N", "o", "m", "e", ":", " ">>,   \* '10 - Nome: '
    <<"J", " ", "S", "i", "l", "v", "a">>,   \* 'J Silva'
    <<" ", "C", "P", "F">>,   \* ' CPF'
    <<"J", "o", "a", "o", " ", "C", "P", "F">>,   \* 'Joao CPF'
    <<" ", "x", "y">>   \* ' xy'
}
PacienteTokens == {
    <<"N", "o", "m", "e", ":", " ">>,   \* 'Nome: '
    <<"P", "a", "c", "i", "e", "n", "t", "e", ":", " ">>,   \* 'Paciente: '
    <<"M", "a", "r", "i", "a", " ", "d", "a", " ", "S", "i", "l", "v", "a">>,   \* 'Maria da Silva'
    <<" ", "C", "P", "F">>,   \* ' CPF'
    <<"\n">>   \* '\n'
}
ValorTokens == {
    <<"R", "$", " ">>,   \* 'R$ '
    <<"v", "a", "l", "o", "r", ":", " ">>,   \* 'valor: '
    <<"1", "2", "3", "4", "5", ",", "6", "7">>,   \* '12345,67'
    <<"1", ".", "2", "3", "4", ",", "5", "6">>,   \* '1.234,56'
    <<"1", ",", "2", "3">>   \* '1,23'
}
DataTokens == {
    <<"A", "u", "t", "o", "r", "i", "z", "a", "ç", "ã", "o", ":", " ">>,   \* 'Autorização: '
    <<"0", "5", "-", "0", "3", "-", "2", "0", "2", "4">>,   \* '05-03-2024'
    <<"e", "m", " ">>,   \* 'em '
    <<"d", "a", "t", "a", " ">>,   \* 'data '
    <<"0", "5", ".", "0", "3", ".", "2", "0">>   \* '05.03.20'
}
SpaceTokens == {
    <<"1", "0", " ", "-", " ", "N", "o", "m", "e", ":", " ", "A">>,   \* '10 - Nome: A'
    <<" ">>,   \* ' '
    <<" ", "\n", " ">>,   \* ' \n '
    <<"\n", "\n">>,   \* '\n\n'
    <<"B", " ", "C", "P", "F", " ", "1">>   \* 'B CPF 1'
}
TokenFamilies == {AnsTokens, GuiaTokens, NomeTokens, PacienteTokens, ValorTokens,
                  DataTokens, SpaceTokens}

RECURSIVE Concats(_, _)
Concats(F, n) ==
    IF n = 0 THEN {<<>>}
    ELSE Concats(F, n - 1) \cup {t \o w : t \in Concats(F, n - 1), w \in F}

Texts == UNION {Concats(F, MaxTokens) : F \in TokenFamilies}
TextInputs == {None} \cup {Str(t) : t \in Texts}

X10 == <<"x", "x", "x", "x", "x", "x", "x", "x", "x", "x">>
X50 == X10 \o X10 \o X10 \o X10 \o X10
X49 == Tail(X50)

T_RegistroAns1234 == <<"R", "e", "g", "i", "s", "t", "r", "o", " ", "A", "N", "S", ":", " ", "1", "2", "3", "4">>
T_Ans123456 == <<"A", "N", "S", " ", "1", "2", "3", "4", "5", "6">>
T_Valor == <<"R", "$", " ", "1", ".", "2", "3", "4", ",", "5", "6">>
T_Ocr == <<"o", "c", "r">>
N_a_pdf == <<"a", ".", "p", "d", "f">>
N_b_PDF == <<"b", ".", "P", "D", "F">>
N_c_png == <<"c", ".", "p", "n", "g">>
N_d_jpg == <<"d", ".", "j", "p", "g">>
N_e_pdf == <<"e", ".", "p", "d", "f">>
N_f_png == <<"f", ".", "p", "n", "g">>
N_g_pdf == <<"g", ".", "p", "d", "f">>

File(name, content, pages, outcome, ocr) ==
    [name |-> name, content |-> content, pages |-> pages, outcome |-> outcome, ocr |-> ocr]

\* The files a user uploads in the batch specification
Files == {
    \* a scanned PDF whose page has a short text layer
    File(N_a_pdf, "pdf", <<Page(T_RegistroAns1234, "text", T_Ans123456)>>, "text", <<>>),
    \* a file named .PDF that is no PDF
    File(N_b_PDF, "corrupt", <<>>, "text", <<>>),
    \* a picture with text
    File(N_c_png, "image", <<>>, "text", T_Valor),
    \* a blank picture: OCR returns the empty string
    File(N_d_jpg, "image", <<>>, "text", <<>>),
    \* a PDF with one blank page
    File(N_e_pdf, "pdf", <<Page(<<>>, "text", <<>>)>>, "text", <<>>),
    \* a picture on which OCR raises
    File(N_f_png, "image", <<>>, "ocr_raises", <<>>),
    \* a digital PDF: a page with 50 characters of text
    File(N_g_pdf, "pdf", <<Page(X50, "text", T_Ocr)>>, "text", <<>>) }

RECURSIVE SeqsUpTo(_, _)
SeqsUpTo(X, n) ==
    IF n = 0 THEN {<<>>}
    ELSE SeqsUpTo(X, n - 1) \cup {Append(q, x) : q \in SeqsUpTo(X, n - 1), x \in X}

\* The pages of the page-loop specification: the text layer is empty, 49 or 50
\* characters long, or 49 characters inside white space
Embeddeds == {<<>>, X49, <<" ">> \o X49 \o <<"\n">>, X50}
Pages == {Page(e, o[1], o[2]) : e \in Embeddeds,
          o \in {<<"text", T_Ocr>>, <<"text", <<>>>>, <<"ocr_raises", <<>>>>,
                 <<"pixmap_raises", <<>>>>}}
PdfFiles == {File(N_a_pdf, "pdf", ps, "text", <<>>) : ps \in SeqsUpTo(Pages, MaxPages)}
            \cup {File(N_b_PDF, "corrupt", <<>>, "text", <<>>)}

\* --------------------------------------------------------------- the state

VARIABLES
    PYMUPDF_AVAILABLE,   \* `import fitz` succeeded
    tesseract_installed, \* pytesseract.get_tesseract_version() returns
    uploaded_files, idx, all_data, all_texts, df, pc,          \* the batch loop
    pdf_file, tesseract_available, page_num, text, ocr_called, \* extract_text_from_pdf
    page_texts, pdf_result, pdf_pc,
    in_text, info, ext_pc                                      \* extract_information

env == <<PYMUPDF_AVAILABLE, tesseract_installed>>
batch == <<uploaded_files, idx, all_data, all_texts, df, pc>>
pdf == <<pdf_file, tesseract_available, page_num, text, ocr_called, page_texts, pdf_result,
         pdf_pc>>
ext == <<in_text, info, ext_pc>>
vars == <<env, batch, pdf, ext>>

EnvInit == PYMUPDF_AVAILABLE \in BOOLEAN /\ tesseract_installed \in BOOLEAN
BatchOff ==
    /\ uploaded_files = <<>> /\ idx = 0 /\ all_data = <<>> /\ all_texts = <<>>
    /\ df = <<>> /\ pc = "off"
PdfOff ==
    /\ pdf_file = File(<<>>, "corrupt", <<>>, "text", <<>>) /\ tesseract_available = FALSE
    /\ page_num = 0 /\ text = <<>> /\ ocr_called = <<>> /\ page_texts = <<>>
    /\ pdf_result = None /\ pdf_pc = "off"
ExtOff == in_text = None /\ info = EmptyInfo /\ ext_pc = "off"

\* ----------------------------------------------------------- the batch loop

columns_order == <<"Arquivo", K_ANS, K_GUIA, K_DATA, K_NOME, K_VALOR>>

BatchInit ==
    /\ EnvInit
    /\ uploaded_files \in SeqsUpTo(Files, MaxFiles)
    /\ idx = 0 /\ all_data = <<>> /\ all_texts = <<>> /\ df = <<>> /\ pc = "start"
    /\ PdfOff /\ ExtOff

\* `if uploaded_files:` and the lists before the loop
Start ==
    /\ pc = "start"
    /\ pc' = IF uploaded_files # <<>> THEN "loop" ELSE "idle"
    /\ idx' = 0 /\ all_data' = <<>> /\ all_texts' = <<>>
    /\ UNCHANGED <<uploaded_files, df, env, pdf, ext>>

\* one pass of `for idx, file in enumerate(uploaded_files)`
ProcessFile ==
    /\ pc = "loop" /\ idx < Len(uploaded_files)
    /\ \E file \in {uploaded_files[idx + 1]} :
       \E got \in {Acquire(file, PYMUPDF_AVAILABLE, tesseract_installed)} :
          IF Truthy(got)
          THEN /\ all_texts' = Append(all_texts, [Arquivo |-> file.name, Texto |-> got.s])
               /\ all_data' = Append(all_data,
                                     DictSet(extract_information(got), "Arquivo", file.name))
          ELSE UNCHANGED <<all_texts, all_data>>
    /\ idx' = idx + 1
    /\ UNCHANGED <<uploaded_files, df, pc, env, pdf, ext>>

\* after the loop: the table, when there is data
Finish ==
    /\ pc = "loop" /\ idx = Len(uploaded_files)
    /\ df' = IF all_data # <<>>
             THEN [r \in 1..Len(all_data) |->
                      [c \in Range(columns_order) |-> all_data[r][c]]]
             ELSE <<>>
    /\ pc' = "done"
    /\ UNCHANGED <<uploaded_files, idx, all_data, all_texts, env, pdf, ext>>

Next == Start \/ ProcessFile \/ Finish
Spec == BatchInit /\ [][Next]_vars

\* ---------------------------------------------- extract_text_from_pdf, by page

PdfInit ==
    /\ EnvInit
    /\ pdf_file \in PdfFiles
    /\ tesseract_available = FALSE /\ page_num = 0 /\ text = <<>> /\ ocr_called = <<>>
    /\ page_texts = <<>> /\ pdf_result = None /\ pdf_pc = "call"
    /\ BatchOff /\ ExtOff

\* the availability checks and fitz.open
PdfOpen ==
    /\ pdf_pc = "call"
    /\ IF ~PYMUPDF_AVAILABLE
       THEN pdf_pc' = "returned" /\ UNCHANGED tesseract_available
       ELSE /\ tesseract_available' = tesseract_installed
            /\ pdf_pc' = IF pdf_file.content # "pdf" THEN "returned" ELSE "pages"
    /\ UNCHANGED <<pdf_file, page_num, text, ocr_called, page_texts, pdf_result, env, batch, ext>>

\* one pass of `for page_num in range(pdf_document.page_count)`
PdfPage ==
    /\ pdf_pc = "pages" /\ page_num < Len(pdf_file.pages)
    /\ \E r \in {PageStep(pdf_file.pages[page_num + 1], tesseract_available)} :
          IF r.raised
          THEN /\ pdf_pc' = "returned"
               /\ UNCHANGED <<page_num, text, ocr_called, page_texts>>
          ELSE /\ text' = text \o r.page_text \o <<"\n">>
               /\ ocr_called' = Append(ocr_called, r.ocr_called)
               /\ page_texts' = Append(page_texts, r.page_text)
               /\ page_num' = page_num + 1
               /\ UNCHANGED pdf_pc
    /\ UNCHANGED <<pdf_file, tesseract_available, pdf_result, env, batch, ext>>

\* `return text`
PdfReturn ==
    /\ pdf_pc = "pages" /\ page_num = Len(pdf_file.pages)
    /\ pdf_result' = Str(text)
    /\ pdf_pc' = "returned"
    /\ UNCHANGED <<pdf_file, tesseract_available, page_num, text, ocr_called, page_texts, env,
                   batch, ext>>

PdfNext == PdfOpen \/ PdfPage \/ PdfReturn
SpecPdf == PdfInit /\ [][PdfNext]_vars

\* ------------------------------------------------------ extract_information

ExtractInit ==
    /\ in_text \in TextInputs
    /\ info = EmptyInfo /\ ext_pc = "call"
    /\ PYMUPDF_AVAILABLE = TRUE /\ tesseract_installed = TRUE
    /\ BatchOff /\ PdfOff

Extract ==
    /\ ext_pc = "call"
    /\ info' = extract_information(in_text)
    /\ ext_pc' = "returned"
    /\ UNCHANGED <<in_text, env, batch, pdf>>

ExtractNext == Extract
SpecExtract == ExtractInit /\ [][ExtractNext]_vars

\* ------------------------------------------------------------ the claims

IsText(v) == DOMAIN v = 1..Len(v) /\ \A k \in 1..Len(v) : v[k] \in Alphabet
IsDigits(v) == \A k \in 1..Len(v) : v[k] \in Digit

Acquired(k) == Acquire(uploaded_files[k], PYMUPDF_AVAILABLE, tesseract_installed)
RowsOf(name) == {r \in 1..Len(all_data) : all_data[r]["Arquivo"] = name}

\* C2: when the acquisition of one file of the batch returns None, every other
\* file whose acquisition returns a text has a record in all_data after the loop.
C2_BatchContinues ==
    pc = "done" =>
        \A k, j \in 1..Len(uploaded_files) :
            (k # j /\ Acquired(k) = None /\ Acquired(j) # None)
                => RowsOf(uploaded_files[j].name) # {}

\* C3: a file whose acquisition returns the empty string has a record in all_data
\* after the loop, with the five fields empty.
C3_EmptyTextGivesEmptyRecord ==
    pc = "done" =>
        \A k \in 1..Len(uploaded_files) :
            Acquired(k) = Str(<<>>) =>
                \E r \in RowsOf(uploaded_files[k].name) :
                    \A f \in FieldKeys : all_data[r][f] = <<>>

FileNamed(name) == CHOOSE f \in Files : f.name = name
\* the text layers of the pages, each followed by a newline
RECURSIVE EmbeddedText(_)
EmbeddedText(pages) ==
    IF pages = <<>> THEN <<>>
    ELSE Head(pages).embedded \o <<"\n">> \o EmbeddedText(Tail(pages))

TrimmedLen(page) == Len(Strip(page.embedded))

\* C5 as stated: a page is OCR'd exactly when its trimmed text layer is shorter than
\* 50 characters; a longer one keeps its text layer, a shorter one gets the OCR
\* output.
C5_OcrIffShort ==
    \A k \in 1..Len(ocr_called) :
        LET page == pdf_file.pages[k]
        IN /\ ocr_called[k] <=> TrimmedLen(page) < MinTextLen
           /\ page_texts[k] = IF TrimmedLen(page) < MinTextLen THEN page.ocr
                              ELSE page.embedded

\* C5, amended: a page is OCR'd exactly when Tesseract is available and its trimmed
\* text layer is shorter than 50 characters; the OCR output replaces the text layer
\* unless the OCR call raises, and every other page keeps its text layer.
C5_OcrIffShortAndAvailable ==
    \A k \in 1..Len(ocr_called) :
        LET page == pdf_file.pages[k]
        IN /\ ocr_called[k] <=> (tesseract_available /\ TrimmedLen(page) < MinTextLen)
           /\ page_texts[k] = IF ocr_called[k] /\ page.outcome = "text" THEN page.ocr
                              ELSE page.embedded

\* a page of 51 characters, 49 without the white space around them, was OCR'd and
\* its OCR output taken
C5_Witness ==
    \E k \in 1..Len(ocr_called) :
        /\ Len(pdf_file.pages[k].embedded) > MinTextLen
        /\ TrimmedLen(pdf_file.pages[k]) = MinTextLen - 1
        /\ ocr_called[k] /\ page_texts[k] = T_Ocr

\* C6: the registry number is empty or a string of at least five digits.
C6_RegistryMinDigits ==
    ext_pc = "returned" =>
        \/ info[K_ANS] = <<>>
        \/ IsDigits(info[K_ANS]) /\ Len(info[K_ANS]) >= AnsMinDigits

\* the places where a token (a maximal run of non-white-space) starts
TokenStarts(t) == {k \in 1..Len(t) : t[k] \notin Space /\ (k = 1 \/ t[k - 1] \in Space)}

\* C7: the name is empty or has at least two tokens, each longer than one
\* character.
C7_NameTokens ==
    ext_pc = "returned" =>
        \/ info[K_NOME] = <<>>
        \/ /\ Cardinality(TokenStarts(info[K_NOME])) >= 2
           /\ \A k \in TokenStarts(info[K_NOME]) :
                  k < Len(info[K_NOME]) /\ info[K_NOME][k + 1] \notin Space

\* ddd,dd after the integer part ip
HasDecimals(v) ==
    /\ Len(v) >= 4
    /\ v[Len(v) - 2] = "," /\ v[Len(v) - 1] \in Digit /\ v[Len(v)] \in Digit
IntegerPart(v) == SubSeq(v, 1, Len(v) - 3)
\* one to three digits, then groups of a point and three digits
IsGrouped(ip) ==
    LET dots == {k \in 1..Len(ip) : ip[k] = "."}
        first == IF dots = {} THEN Len(ip) + 1 ELSE CHOOSE k \in dots : \A j \in dots : k <= j
    IN /\ \A k \in 1..Len(ip) : ip[k] \in Digit \cup {"."}
       /\ first \in 2..4
       /\ \A k \in dots : /\ k + 3 <= Len(ip)
                          /\ \A j \in (k + 1)..(k + 3) : ip[j] \in Digit
                          /\ (k + 3 = Len(ip) \/ ip[k + 4] = ".")
IsGroupedMoney(v) == HasDecimals(v) /\ IsGrouped(IntegerPart(v))
\* one or more digits, a comma, two digits
IsPlainMoney(v) == HasDecimals(v) /\ Len(v) >= 4 /\ IsDigits(IntegerPart(v))
IsSubSeq(v, t) == \E k \in 0..(Len(t) - Len(v)) : SubSeq(t, k + 1, k + Len(v)) = v

\* C8 as stated: the value is empty or of the grouped shape: one to three digits,
\* groups of a point and three digits, a comma and two digits.
C8_ValueGrouped ==
    ext_pc = "returned" => (info[K_VALOR] = <<>> \/ IsGroupedMoney(info[K_VALOR]))

\* C8, amended: the value is empty or a piece of the normalized text, as matched,
\* of the grouped shape or, by the last pattern, of one or more digits without
\* points, a comma and two digits.
C8_ValueGroupedOrPlain ==
    (ext_pc = "returned" /\ info[K_VALOR] # <<>>) =>
        /\ IsGroupedMoney(info[K_VALOR]) \/ IsPlainMoney(info[K_VALOR])
        /\ IsSubSeq(info[K_VALOR], Normalize(in_text.s))

\* a value of five digits without points was stored
C8_Witness ==
    /\ ext_pc = "returned" /\ info[K_VALOR] # <<>>
    /\ IsPlainMoney(info[K_VALOR]) /\ ~IsGroupedMoney(info[K_VALOR])
    /\ Len(IntegerPart(info[K_VALOR])) >= 4

\* N(T): every newline a space, every run of white space one space
FullNormalize(t) == CollapseRuns(Replace(t, <<"\n">>, <<" ">>))

\* C9: extract_information gives the same record for T and for N(T).
C9_NormalizationIdempotent ==
    (ext_pc = "returned" /\ Truthy(in_text)) =>
        extract_information(Str(FullNormalize(in_text.s))) = info

GuiaValid(k, t) ==
    \E m \in {Search(guia_patterns[k], t)} :
        m # NoMatch /\ Len(DigitsOnly(m[1])) >= GuiaMinDigits
NomeValid(k, t) ==
    \E m \in {Search(nome_patterns[k], t)} :
        m # NoMatch /\ TokenCount(CleanNome(m[1])) >= NomeMinTokens
Least(X) == CHOOSE k \in X : \A j \in X : k <= j

\* C10: the guide number and the name are those of the first pattern, in list
\* order, whose match passes the validation (the digits of the capture, the
\* cleaned capture), and are empty only when no pattern has such a match.
C10_FirstValidPattern ==
    (ext_pc = "returned" /\ Truthy(in_text)) =>
        \E t \in {Normalize(in_text.s)} :
            /\ \E valid \in {{k \in 1..Len(guia_patterns) : GuiaValid(k, t)}} :
                  info[K_GUIA] = IF valid = {} THEN <<>>
                                 ELSE DigitsOnly(Search(guia_patterns[Least(valid)], t)[1])
            /\ \E valid \in {{k \in 1..Len(nome_patterns) : NomeValid(k, t)}} :
                  info[K_NOME] = IF valid = {} THEN <<>>
                                 ELSE CleanNome(Search(nome_patterns[Least(valid)], t)[1])

\* a guide pattern matched a capture with too few digits and a later pattern gave
\* the number
C10_Witness ==
    /\ ext_pc = "returned" /\ Truthy(in_text) /\ info[K_GUIA] # <<>>
    /\ \E t \in {Normalize(in_text.s)} :
          \E k \in 1..Len(guia_patterns) :
              /\ Search(guia_patterns[k], t) # NoMatch
              /\ ~GuiaValid(k, t)
              /\ \E j \in (k + 1)..Len(guia_patterns) :
                    /\ GuiaValid(j, t)
                    /\ info[K_GUIA] = DigitsOnly(Search(guia_patterns[j], t)[1])

\* the record of the k-th uploaded file: its fields and its name
RecordOf(k) ==
    DictSet(extract_information(Acquired(k)), "Arquivo", uploaded_files[k].name)
\* the records, in upload order, of the files from the k-th on whose acquisition
\* returned a text; with dropEmpty, of those whose text is not empty
RECURSIVE ExpectedRows(_, _)
ExpectedRows(k, dropEmpty) ==
    IF k > Len(uploaded_files) THEN <<>>
    ELSE (IF Acquired(k) = None \/ (dropEmpty /\ ~Truthy(Acquired(k)))
          THEN <<>> ELSE <<RecordOf(k)>>)
         \o ExpectedRows(k + 1, dropEmpty)
TableOf(rows) == [r \in 1..Len(rows) |-> [c \in Range(columns_order) |-> rows[r][c]]]

\* C11: after the loop the table has one row for every file whose acquisition
\* returned a text, in upload order, each row the record extracted from that
\* file's own text with the file's name under 'Arquivo', and nothing else.
C11_OneRowPerProcessed ==
    pc = "done" =>
        /\ all_data = ExpectedRows(1, FALSE)
        /\ df = TableOf(ExpectedRows(1, FALSE))

\* What holds of the loop: the same, of the files whose text is not empty.
RowsOfNonEmptyTexts ==
    pc = "done" =>
        /\ all_data = ExpectedRows(1, TRUE)
        /\ df = TableOf(ExpectedRows(1, TRUE))

====
